---- MODULE Spec2Model ----
(***************************************************************************)
(* History-brush masking engine (components/MaskingCanvas.tsx) and the     *)
(* part of App.tsx that hosts it.                                          *)
(*                                                                         *)
(* Every raster operation of the engine (fill, dab compositing,            *)
(* getImageData, putImageData, toDataURL) acts on each pixel               *)
(* independently, so the raster is observed at a finite set of pixels of   *)
(* one row (ProbeXs); strokes run along that row.  Lengths are in quarter  *)
(* pixels (Q units per pixel) so that step = min(brushSize / 4, 6) is an   *)
(* integer for every integer brush size.                                   *)
(*                                                                         *)
(* Further specifications over the same variables: HostSpec (the image     *)
(* history of App.tsx), MapSpec (getCoords and draw under degenerate       *)
(* geometry), StepSpec and DabSpec (the stamping increment and one dab on  *)
(* one pixel), RetrySpec (withRetry of BatchProcessingScreen.tsx) and      *)
(* BudgetSpec (the budget tracker of services/geminiService.ts).           *)
(***************************************************************************)
EXTENDS Integers, Sequences, FiniteSets, TLC

\* ---------------------------------------------------------------- bounds
MaxHist == 3   \* a stroke starts only while the two stacks hold fewer snapshots

\* ------------------------------------------------------- program constants
Q == 4         \* brushSize / 4: quarter-pixel units per pixel
MaxStep == 6   \* Math.min(brushSize / 4, 6)
MinHardnessPct == 1   \* Math.max(0.01, brushHardness / 100), in percent
Opaque == 255  \* 8-bit channel maximum

\* -------------------------------------------------- enumerated inputs
Widths == {44, 48}         \* imageDimensions.width values
Heights == {32}            \* imageDimensions.height values
ProbeXs == {10, 40}        \* observed pixel columns
ClientXs == {15, 45}       \* pointer clientX samples
ClientYs == {11}           \* pointer clientY samples: strokes run along one row
BrushSizes == {50}
BrushHardnesses == {100}
BrushModes == {"brush", "erase"}
BrushConfigs == [size : BrushSizes, hardness : BrushHardnesses, mode : BrushModes]

\* ------------------------------------------------------------ arithmetic
Abs(n) == IF n < 0 THEN -n ELSE n
Min(a, b) == IF a < b THEN a ELSE b
Max(a, b) == IF a > b THEN a ELSE b
\* n / d rounded to the nearest integer (n >= 0, d > 0)
RDiv(n, d) == (2 * n + d) \div (2 * d)

\* ------------------------------------------------------------ the raster
BlackPixel == [c |-> 0, a |-> Opaque]
ClearPixel == [c |-> 0, a |-> 0]
WhiteLevel == 255   \* 'white'

Probes(w) == {x \in ProbeXs : x < w}

\* A canvas bitmap / an ImageData: dimensions and the observed pixels.
ClearedBitmap(w, h) == [width |-> w, height |-> h, data |-> [x \in Probes(w) |-> ClearPixel]]
BlackBitmap(w, h) == [width |-> w, height |-> h, data |-> [x \in Probes(w) |-> BlackPixel]]

\* One pixel composited with source colour sc at source alpha sa.
Composite(op, sc, sa, dst) ==
  IF op = "destination-out"
  THEN LET ao == RDiv(dst.a * (Opaque - sa), Opaque)
       IN  [c |-> IF ao = 0 THEN 0 ELSE dst.c, a |-> ao]
  ELSE LET rest == RDiv(dst.a * (Opaque - sa), Opaque)
           ao == sa + rest
       IN  [c |-> IF ao = 0 THEN 0 ELSE RDiv(sc * sa + dst.c * rest, ao), a |-> ao]

\* ctx.fillRect(0, 0, width, height) with fillStyle 'black'
FillRectBlack(op, bmp) ==
  [bmp EXCEPT !.data = [x \in DOMAIN bmp.data |-> Composite(op, 0, Opaque, bmp.data[x])]]

\* Alpha of the radial gradient of a dab centred cx4 (quarter pixels) at
\* pixel column x of the observed row.
DabAlpha(cx4, x, size, hardness) ==
  LET r4 == 2 * size
      d4 == Abs(Q * x - cx4)
      hs == Max(MinHardnessPct, hardness)
  IN  IF d4 >= r4 THEN 0
      ELSE IF 100 * d4 <= hs * r4 THEN Opaque
      ELSE RDiv(Opaque * 100 * (r4 - d4), r4 * (100 - hs))

\* ctx.fill() of one dab
StampDab(op, bmp, cx4, size, hardness) ==
  [bmp EXCEPT !.data = [x \in DOMAIN bmp.data |->
      Composite(op, WhiteLevel, DabAlpha(cx4, x, size, hardness), bmp.data[x])]]

\* canvas.toDataURL('image/png'): the rows of RGBA bytes behind a PNG header
toDataURL(bmp) ==
  [mime |-> "data:image/png;base64",
   width |-> bmp.width, height |-> bmp.height,
   rgba |-> [x \in DOMAIN bmp.data |->
               <<bmp.data[x].c, bmp.data[x].c, bmp.data[x].c, bmp.data[x].a>>]]


\* ------------------------------------------------------- coordinate mapper
\* canvas.getBoundingClientRect() for a canvas of w x h pixels
Rects(w, h) == {[left |-> 5, top |-> 3, width |-> w, height |-> h]}

\* getCoords: the event position in canvas pixel space, in quarter pixels
getCoords(clientX, clientY, rect, w, h) ==
  [x |-> ((clientX - rect.left) * Q * w) \div rect.width,
   y |-> ((clientY - rect.top) * Q * h) \div rect.height]

\* ------------------------------------------------------- stroke rasterizer
\* the larger of the two for the smaller
Step_Max(size) == Max(size, Q * MaxStep)

\* const step = Math.min(brushSize / 4, 6), in quarter pixels
Step(size) == Min(size, Q * MaxStep)

\* the loop condition written i <= distance
BeforeDistance_Inclusive(i, dx, dy) == i * i <= dx * dx + dy * dy

\* the loop condition written i !== distance
BeforeDistance_NotEqual(i, dx, dy) == i * i # dx * dx + dy * dy

\* i < distance, with distance = Math.hypot(dx, dy)
BeforeDistance(i, dx, dy) == i * i < dx * dx + dy * dy

\* Math.cos(angle) for the horizontal segments the model draws (dy = 0)
CosAngle(dx, dy) == IF dx < 0 THEN -1 ELSE 1

RECURSIVE StampLoop(_, _, _, _, _, _)
\* for (let i = 0; i < distance; i += step) { ... ctx.fill() }
StampLoop(bmp, i, from, to, op, brush) ==
  LET dx == to.x - from.x
      dy == to.y - from.y
  IN  IF BeforeDistance(i, dx, dy)
      THEN StampLoop(StampDab(op, bmp, from.x + CosAngle(dx, dy) * i, brush.size, brush.hardness),
                     i + Step(brush.size), from, to, op, brush)
      ELSE bmp

RECURSIVE DabCount(_, _, _, _)
\* number of iterations of the stamping loop
DabCount(i, from, to, brush) ==
  IF BeforeDistance(i, to.x - from.x, to.y - from.y)
  THEN 1 + DabCount(i + Step(brush.size), from, to, brush)
  ELSE 0

\* the erase mode left compositing as a brush does
CompositeOpOf_AlwaysOver(mode) == "source-over"

\* ctx.globalCompositeOperation = brushMode === 'erase' ? ... : ...
CompositeOpOf(mode) == IF mode = "erase" THEN "destination-out" ELSE "source-over"

\* ------------------------------------------------------------------ state
VARIABLES
  width, height,        \* props width/height = the canvas element's attributes
  canvas,               \* the canvas bitmap
  gco,                  \* ctx.globalCompositeOperation
  isDrawing, lastPoint, \* refs of the stroke in progress
  historyStackRef,      \* undo stack of ImageData, oldest first
  redoStackRef,         \* redo stack of ImageData, most recently undone last
  drawnMaskDataUrl,     \* App state set by onMaskChange
  canUndoMaskStroke,    \* App state set by onUndoStateChange
  canRedoMaskStroke,    \* App state set by onRedoStateChange
  lastOp,               \* observation: the handler that ran last
  emitted,              \* observation: callbacks fired by that handler, in order
  pre,                  \* observation: engine state before that handler
  tap,                  \* observation: the pointer-down of the current stroke
  sinceInit,            \* observation: commits then undos since Initialize
  undoRedo,             \* observation: the current run of undos then redos
  event,                \* observation: the DOM event or host action behind that handler
  app,                  \* App.tsx: image history, mask reset trigger, image dimensions
  fn,                   \* one evaluation of a function of the rasterizer
  retry,                \* one run of withRetry
  budget,               \* the budget tracker: stored spend and calls in flight
  batch                 \* BatchProcessingScreen.tsx: items, flags, the run in progress

engineVars == <<width, height, canvas, gco, isDrawing, lastPoint, historyStackRef, redoStackRef>>
hostVars == <<drawnMaskDataUrl, canUndoMaskStroke, canRedoMaskStroke>>
obsVars == <<lastOp, emitted, pre, tap, sinceInit, undoRedo, event>>
maskVars == <<engineVars, hostVars, obsVars>>
vars == <<engineVars, hostVars, obsVars, app, fn, retry, budget, batch>>

\* a nullable value is <<>> (null) or <<v>>
Null == <<>>
Some(v) == <<v>>

Engine == [canvas |-> canvas, historyStack |-> historyStackRef, redoStack |-> redoStackRef,
           isDrawing |-> isDrawing, lastPoint |-> lastPoint]

NoTap == [on |-> FALSE, dabs |-> 0, oneDab |-> Null]
NoRun == [active |-> FALSE, k |-> 0, j |-> 0, base |-> Null]
FreshSession == [clean |-> TRUE, n |-> 0, k |-> 0]
Dirty == [clean |-> FALSE, n |-> 0, k |-> 0]

\* ctx.getImageData(0, 0, canvas.width, canvas.height): a copy of the bitmap
getImageData(bmp) == bmp

\* ctx.putImageData(img, 0, 0): the pixels of img replace those of the bitmap
\* wherever both have them; compositing state is not applied
putImageData(bmp, img) ==
  [bmp EXCEPT !.data = [x \in DOMAIN bmp.data |->
      IF x \in DOMAIN img.data THEN img.data[x] ELSE bmp.data[x]]]

\* ------------------------------------------------------ Initialize / Reset
\* The body of the effect on [width, height, resetTrigger], run on a bitmap
\* bmp under composite operation op: clearRect, fillRect black, both stacks
\* reset to the one snapshot, both availabilities reported false.
InitializeEffect(bmp, op) ==
  LET filled == FillRectBlack(op, ClearedBitmap(bmp.width, bmp.height))
  IN  /\ canvas' = filled
      /\ historyStackRef' = <<getImageData(filled)>>
      /\ redoStackRef' = <<>>
      /\ canUndoMaskStroke' = FALSE
      /\ canRedoMaskStroke' = FALSE

\* The other parts of the program at rest
AppIdle == app = Null
FnIdle == fn = Null
RetryIdle == retry = Null
BudgetIdle == budget = Null
BatchIdle == batch = Null

\* The masking canvas just mounted
MaskMounted ==
  /\ width \in Widths
  /\ height \in Heights
  /\ canvas = BlackBitmap(width, height)
  /\ gco = "source-over"
  /\ isDrawing = FALSE
  /\ lastPoint = Null
  /\ historyStackRef = <<BlackBitmap(width, height)>>
  /\ redoStackRef = <<>>
  /\ drawnMaskDataUrl = Null
  /\ canUndoMaskStroke = FALSE
  /\ canRedoMaskStroke = FALSE
  /\ lastOp = "mount"
  /\ emitted = <<"onUndoStateChange", "onRedoStateChange">>
  /\ pre = [canvas |-> ClearedBitmap(width, height), historyStack |-> <<>>, redoStack |-> <<>>,
            isDrawing |-> FALSE, lastPoint |-> Null]
  /\ tap = NoTap
  /\ sinceInit = FreshSession
  /\ undoRedo = NoRun
  /\ event = "mount"

Init == MaskMounted /\ AppIdle /\ FnIdle /\ RetryIdle /\ BudgetIdle /\ BatchIdle

\* MaskPanel onReset: setDrawnMaskDataUrl(null); setMaskResetTrigger(t => t + 1),
\* and the effect the changed resetTrigger runs.  The canvas element and its
\* 2D context are kept, so the effect draws under the current gco.
MaskReset ==
  /\ InitializeEffect(canvas, gco)
  /\ drawnMaskDataUrl' = Null
  /\ UNCHANGED <<width, height, gco, isDrawing, lastPoint>>
  /\ lastOp' = "reset"
  /\ emitted' = <<"onUndoStateChange", "onRedoStateChange">>
  /\ pre' = Engine
  /\ tap' = NoTap
  /\ sinceInit' = FreshSession
  /\ undoRedo' = NoRun

\* a change of dimensions that clears the bitmap but keeps both stacks
Resize_KeepsHistory(w, h) ==
  /\ <<w, h>> # <<width, height>>
  /\ width' = w
  /\ height' = h
  /\ gco' = "source-over"
  /\ canvas' = FillRectBlack("source-over", ClearedBitmap(w, h))
  /\ UNCHANGED <<historyStackRef, redoStackRef, canUndoMaskStroke, canRedoMaskStroke>>
  /\ UNCHANGED <<isDrawing, lastPoint, drawnMaskDataUrl>>
  /\ lastOp' = "resize"
  /\ emitted' = <<>>
  /\ pre' = Engine
  /\ tap' = NoTap
  /\ sinceInit' = FreshSession
  /\ undoRedo' = NoRun

\* onImageLoad: setImageDimensions with a different size.  Setting the canvas
\* width/height attributes clears the bitmap and resets the context state;
\* then the effect runs.
Resize(w, h) ==
  /\ <<w, h>> # <<width, height>>
  /\ width' = w
  /\ height' = h
  /\ gco' = "source-over"
  /\ InitializeEffect(ClearedBitmap(w, h), "source-over")
  /\ UNCHANGED <<isDrawing, lastPoint, drawnMaskDataUrl>>
  /\ lastOp' = "resize"
  /\ emitted' = <<"onUndoStateChange", "onRedoStateChange">>
  /\ pre' = Engine
  /\ tap' = NoTap
  /\ sinceInit' = FreshSession
  /\ undoRedo' = NoRun

\* The MaskingCanvas is unmounted and mounted again (activeTab leaves 'mask'
\* and returns, or isLoading goes true and false again around a failed
\* Apply): a new canvas element, new refs, and the effect runs.  App state
\* (drawnMaskDataUrl) is kept.  The tab buttons and Apply lie outside the
\* canvas, so the pointer has left it and no stroke is in progress.
Remount ==
  /\ ~isDrawing
  /\ gco' = "source-over"
  /\ InitializeEffect(ClearedBitmap(width, height), "source-over")
  /\ isDrawing' = FALSE
  /\ lastPoint' = Null
  /\ UNCHANGED <<width, height, drawnMaskDataUrl>>
  /\ lastOp' = "mount"
  /\ emitted' = <<"onUndoStateChange", "onRedoStateChange">>
  /\ pre' = [canvas |-> ClearedBitmap(width, height), historyStack |-> <<>>, redoStack |-> <<>>,
             isDrawing |-> FALSE, lastPoint |-> Null]
  /\ tap' = NoTap
  /\ sinceInit' = FreshSession
  /\ undoRedo' = NoRun

\* ------------------------------------------------------------- the stroke
\* draw(e) once isDrawing holds: returns [bmp, op, last, dabs]
DrawResult(bmp, op, last, cur, brush) ==
  IF last = Null
  THEN [bmp |-> bmp, op |-> op, last |-> last, dabs |-> 0]
  ELSE [bmp |-> StampLoop(bmp, 0, last[1], cur, CompositeOpOf(brush.mode), brush),
        op |-> CompositeOpOf(brush.mode),
        last |-> Some(cur),
        dabs |-> DabCount(0, last[1], cur, brush)]

\* onMouseDown / onTouchStart
startDrawing(clientX, clientY, rect, brush) ==
  LET p == getCoords(clientX, clientY, rect, canvas.width, canvas.height)
      r == DrawResult(canvas, gco, Some(p), p, brush)
  IN  /\ Len(historyStackRef) + Len(redoStackRef) < MaxHist
      /\ isDrawing' = TRUE
      /\ canvas' = r.bmp
      /\ gco' = r.op
      /\ lastPoint' = r.last
      /\ UNCHANGED <<width, height, historyStackRef, redoStackRef, hostVars>>
      /\ lastOp' = "startDrawing"
      /\ emitted' = <<>>
      /\ pre' = Engine
      /\ tap' = [on |-> TRUE, dabs |-> r.dabs,
                 oneDab |-> Some(StampDab(CompositeOpOf(brush.mode), canvas, p.x, brush.size, brush.hardness))]
      /\ sinceInit' = IF sinceInit.k = 0 THEN sinceInit ELSE Dirty
      /\ undoRedo' = NoRun

\* draw() on a raster whose buffer the newest snapshot shares
draw_Aliased(clientX, clientY, rect, brush) ==
  LET p == getCoords(clientX, clientY, rect, canvas.width, canvas.height)
      r == DrawResult(canvas, gco, lastPoint, p, brush)
  IN  /\ IF isDrawing
         THEN /\ canvas' = r.bmp
              /\ historyStackRef' = [historyStackRef EXCEPT ![Len(historyStackRef)] = r.bmp]
              /\ gco' = r.op
              /\ lastPoint' = r.last
              /\ tap' = [tap EXCEPT !.on = FALSE]
              /\ sinceInit' = IF sinceInit.k = 0 THEN sinceInit ELSE Dirty
              /\ undoRedo' = NoRun
         ELSE UNCHANGED <<canvas, historyStackRef, gco, lastPoint, tap, sinceInit, undoRedo>>
      /\ UNCHANGED <<width, height, isDrawing, redoStackRef, hostVars>>
      /\ lastOp' = "draw"
      /\ emitted' = <<>>
      /\ pre' = Engine

\* onMouseMove / onTouchMove
draw(clientX, clientY, rect, brush) ==
  LET p == getCoords(clientX, clientY, rect, canvas.width, canvas.height)
      r == DrawResult(canvas, gco, lastPoint, p, brush)
  IN  /\ IF isDrawing
         THEN /\ canvas' = r.bmp
              /\ gco' = r.op
              /\ lastPoint' = r.last
              /\ tap' = [tap EXCEPT !.on = FALSE]
              /\ sinceInit' = IF sinceInit.k = 0 THEN sinceInit ELSE Dirty
              /\ undoRedo' = NoRun
         ELSE UNCHANGED <<canvas, gco, lastPoint, tap, sinceInit, undoRedo>>
      /\ UNCHANGED <<width, height, isDrawing, historyStackRef, redoStackRef, hostVars>>
      /\ lastOp' = "draw"
      /\ emitted' = <<>>
      /\ pre' = Engine

\* saveState() that forgets to drop the redo stack
saveState_KeepsRedo ==
  /\ UNCHANGED <<redoStackRef, canRedoMaskStroke>>
  /\ historyStackRef' = Append(historyStackRef, getImageData(canvas))
  /\ canUndoMaskStroke' = (Len(historyStackRef) + 1 > 1)

\* saveState() that reports neither availability
saveState_Silent ==
  /\ redoStackRef' = <<>>
  /\ historyStackRef' = Append(historyStackRef, getImageData(canvas))
  /\ UNCHANGED <<canUndoMaskStroke, canRedoMaskStroke>>

\* saveState(): the redo stack is dropped, a copy of the bitmap is pushed
saveState ==
  /\ redoStackRef' = <<>>
  /\ canRedoMaskStroke' = FALSE
  /\ historyStackRef' = Append(historyStackRef, getImageData(canvas))
  /\ canUndoMaskStroke' = (Len(historyStackRef) + 1 > 1)

\* endDrawing() without its isDrawing guard
endDrawing_Unguarded ==
  /\ isDrawing' = FALSE
  /\ lastPoint' = Null
  /\ drawnMaskDataUrl' = Some(toDataURL(canvas))
  /\ saveState
  /\ emitted' = <<"onMaskChange", "onRedoStateChange", "onUndoStateChange", "onDrawEnd">>
  /\ sinceInit' = IF sinceInit.clean /\ sinceInit.k = 0
                  THEN [sinceInit EXCEPT !.n = @ + 1] ELSE Dirty
  /\ undoRedo' = NoRun
  /\ UNCHANGED tap
  /\ UNCHANGED <<width, height, canvas, gco>>
  /\ lastOp' = "endDrawing"
  /\ pre' = Engine

\* endDrawing() that leaves isDrawing set
endDrawing_KeepsDrawing ==
  /\ IF isDrawing
     THEN /\ UNCHANGED isDrawing
          /\ lastPoint' = Null
          /\ drawnMaskDataUrl' = Some(toDataURL(canvas))
          /\ saveState
          /\ emitted' = <<"onMaskChange", "onRedoStateChange", "onUndoStateChange", "onDrawEnd">>
          /\ sinceInit' = IF sinceInit.clean /\ sinceInit.k = 0
                          THEN [sinceInit EXCEPT !.n = @ + 1] ELSE Dirty
          /\ undoRedo' = NoRun
          /\ UNCHANGED tap
     ELSE /\ UNCHANGED <<isDrawing, lastPoint, historyStackRef, redoStackRef, hostVars>>
          /\ emitted' = <<>>
          /\ tap' = NoTap
          /\ UNCHANGED <<sinceInit, undoRedo>>
  /\ UNCHANGED <<width, height, canvas, gco>>
  /\ lastOp' = "endDrawing"
  /\ pre' = Engine

\* onMouseUp / onMouseLeave / onTouchEnd
endDrawing ==
  /\ IF isDrawing
     THEN /\ isDrawing' = FALSE
          /\ lastPoint' = Null
          /\ drawnMaskDataUrl' = Some(toDataURL(canvas))
          /\ saveState
          /\ emitted' = <<"onMaskChange", "onRedoStateChange", "onUndoStateChange", "onDrawEnd">>
          /\ sinceInit' = IF sinceInit.clean /\ sinceInit.k = 0
                          THEN [sinceInit EXCEPT !.n = @ + 1] ELSE Dirty
          /\ undoRedo' = NoRun
          /\ UNCHANGED tap
     ELSE /\ UNCHANGED <<isDrawing, lastPoint, historyStackRef, redoStackRef, hostVars>>
          /\ emitted' = <<>>
          /\ tap' = NoTap
          /\ UNCHANGED <<sinceInit, undoRedo>>
  /\ UNCHANGED <<width, height, canvas, gco>>
  /\ lastOp' = "endDrawing"
  /\ pre' = Engine

\* ----------------------------------------------------- the imperative handle
\* undo() guarded by length > 0
UndoApplies_NonEmpty(stack) == Len(stack) > 0

\* if (historyStackRef.current.length > 1)
UndoApplies(stack) == Len(stack) > 1

\* if (redoStackRef.current.length > 0)
RedoApplies(stack) == Len(stack) > 0

\* a pop() that takes the last element and drops the one below it too
Pop_DropsTwo(stack) ==
  IF Len(stack) = 0 THEN [state |-> Null, rest |-> stack]
  ELSE [state |-> Some(stack[Len(stack)]),
        rest |-> SubSeq(stack, 1, IF Len(stack) > 1 THEN Len(stack) - 2 ELSE 0)]

\* Array.prototype.pop(): the last element (undefined when empty) and the rest
Pop(stack) ==
  IF Len(stack) = 0 THEN [state |-> Null, rest |-> stack]
  ELSE [state |-> Some(stack[Len(stack)]), rest |-> SubSeq(stack, 1, Len(stack) - 1)]

\* redo() taking the oldest undone snapshot (shift() for pop())
RedoPop_Shift(stack) ==
  IF Len(stack) = 0 THEN [state |-> Null, rest |-> stack]
  ELSE [state |-> Some(stack[1]), rest |-> Tail(stack)]

\* const nextState = redoStackRef.current.pop()
RedoPop(stack) == Pop(stack)

\* undo() restoring the oldest snapshot instead of the previous one
PrevStateOf_First(stack) == IF Len(stack) = 0 THEN Null ELSE Some(stack[1])

\* const prevState = historyStackRef.current[historyStackRef.current.length - 1]
PrevStateOf(stack) == IF Len(stack) = 0 THEN Null ELSE Some(stack[Len(stack)])

\* the export taken before the snapshot is put back
ExportRestored_Early(before, after) == toDataURL(before)

\* onMaskChange(canvasRef.current.toDataURL('image/png')) after putImageData
ExportRestored(before, after) == toDataURL(after)

\* undo(): maskingCanvasRef.current?.undo() from handleUndoMaskStroke
undo ==
  /\ IF UndoApplies(historyStackRef)
     THEN LET p == Pop(historyStackRef)
              pushed == IF p.state = Null THEN redoStackRef
                        ELSE Append(redoStackRef, p.state[1])
              prevState == PrevStateOf(p.rest)
              restored == IF prevState = Null THEN canvas
                          ELSE putImageData(canvas, prevState[1])
          IN  /\ historyStackRef' = p.rest
              /\ redoStackRef' = pushed
              /\ canvas' = restored
              /\ drawnMaskDataUrl' = IF prevState = Null THEN drawnMaskDataUrl
                                     ELSE Some(ExportRestored(canvas, restored))
              /\ canUndoMaskStroke' = (Len(p.rest) > 1)
              /\ canRedoMaskStroke' = (Len(pushed) > 0)
              /\ emitted' = IF prevState = Null
                            THEN <<"onUndoStateChange", "onRedoStateChange">>
                            ELSE <<"onMaskChange", "onUndoStateChange", "onRedoStateChange">>
              /\ sinceInit' = IF sinceInit.clean /\ ~isDrawing
                              THEN [sinceInit EXCEPT !.k = @ + 1] ELSE Dirty
              /\ undoRedo' = IF isDrawing THEN NoRun
                             ELSE IF undoRedo.active /\ undoRedo.j = 0
                             THEN [undoRedo EXCEPT !.k = @ + 1]
                             ELSE [active |-> TRUE, k |-> 1, j |-> 0,
                                   base |-> Some(<<canvas, historyStackRef, redoStackRef>>)]
     ELSE /\ UNCHANGED <<canvas, historyStackRef, redoStackRef, hostVars>>
          /\ emitted' = <<>>
          /\ UNCHANGED <<sinceInit, undoRedo>>
  /\ UNCHANGED <<width, height, gco, isDrawing, lastPoint>>
  /\ lastOp' = "undo"
  /\ pre' = Engine
  /\ tap' = NoTap

\* redo(): maskingCanvasRef.current?.redo() from handleRedoMaskStroke
redo ==
  /\ IF RedoApplies(redoStackRef)
     THEN LET p == RedoPop(redoStackRef)
              pushed == IF p.state = Null THEN historyStackRef
                        ELSE Append(historyStackRef, p.state[1])
              restored == IF p.state = Null THEN canvas
                          ELSE putImageData(canvas, p.state[1])
          IN  /\ redoStackRef' = p.rest
              /\ historyStackRef' = pushed
              /\ canvas' = restored
              /\ drawnMaskDataUrl' = IF p.state = Null THEN drawnMaskDataUrl
                                     ELSE Some(ExportRestored(canvas, restored))
              /\ canUndoMaskStroke' = (Len(pushed) > 1)
              /\ canRedoMaskStroke' = (Len(p.rest) > 0)
              /\ emitted' = IF p.state = Null
                            THEN <<"onUndoStateChange", "onRedoStateChange">>
                            ELSE <<"onMaskChange", "onUndoStateChange", "onRedoStateChange">>
              /\ sinceInit' = Dirty
              /\ undoRedo' = IF ~isDrawing /\ undoRedo.active /\ undoRedo.j < undoRedo.k
                             THEN [undoRedo EXCEPT !.j = @ + 1]
                             ELSE NoRun
     ELSE /\ UNCHANGED <<canvas, historyStackRef, redoStackRef, hostVars>>
          /\ emitted' = <<>>
          /\ UNCHANGED <<sinceInit, undoRedo>>
  /\ UNCHANGED <<width, height, gco, isDrawing, lastPoint>>
  /\ lastOp' = "redo"
  /\ pre' = Engine
  /\ tap' = NoTap

\* ------------------------------------------------------------ the machine
PointerDown ==
  /\ \E cx \in ClientXs, cy \in ClientYs, b \in BrushConfigs :
       \E rect \in Rects(width, height) : startDrawing(cx, cy, rect, b)
  /\ event' \in {"mousedown", "touchstart"}
  /\ UNCHANGED <<app, fn, retry, budget, batch>>

PointerMove ==
  /\ \E cx \in ClientXs, cy \in ClientYs, b \in BrushConfigs :
       \E rect \in Rects(width, height) : draw(cx, cy, rect, b)
  /\ event' \in {"mousemove", "touchmove"}
  /\ UNCHANGED <<app, fn, retry, budget, batch>>

\* a stroke ended by an event that discards it
onMouseLeave_Discards ==
  /\ isDrawing
  /\ isDrawing' = FALSE
  /\ lastPoint' = Null
  /\ UNCHANGED <<width, height, canvas, gco, historyStackRef, redoStackRef, hostVars>>
  /\ UNCHANGED <<tap, sinceInit, undoRedo>>
  /\ lastOp' = "endDrawing"
  /\ emitted' = <<>>
  /\ pre' = Engine
  /\ event' = "mouseleave"
  /\ UNCHANGED <<app, fn, retry, budget, batch>>

\* onMouseUp={endDrawing}
onMouseUp == endDrawing /\ event' = "mouseup" /\ UNCHANGED <<app, fn, retry, budget, batch>>

\* onMouseLeave={endDrawing}
onMouseLeave == endDrawing /\ event' = "mouseleave" /\ UNCHANGED <<app, fn, retry, budget, batch>>

\* onTouchEnd={endDrawing}
onTouchEnd == endDrawing /\ event' = "touchend" /\ UNCHANGED <<app, fn, retry, budget, batch>>

\* handleUndoMaskStroke: maskingCanvasRef.current?.undo()
handleUndoMaskStroke == undo /\ event' = "undoStroke" /\ UNCHANGED <<app, fn, retry, budget, batch>>

\* handleRedoMaskStroke: maskingCanvasRef.current?.redo()
handleRedoMaskStroke == redo /\ event' = "redoStroke" /\ UNCHANGED <<app, fn, retry, budget, batch>>

\* MaskPanel onReset
onReset == MaskReset /\ event' = "resetMask" /\ UNCHANGED <<app, fn, retry, budget, batch>>

ImageLoad ==
  /\ \E w \in Widths, h \in Heights : Resize(w, h)
  /\ event' = "load"
  /\ UNCHANGED <<app, fn, retry, budget, batch>>

\* setActiveTab away from 'mask' and back, or setIsLoading(true) then (false)
TabReturn == Remount /\ event' = "mount" /\ UNCHANGED <<app, fn, retry, budget, batch>>

Next ==
  \/ PointerDown
  \/ PointerMove
  \/ onMouseUp
  \/ onMouseLeave
  \/ onTouchEnd
  \/ handleUndoMaskStroke
  \/ handleRedoMaskStroke
  \/ onReset
  \/ ImageLoad
  \/ TabReturn

Spec == Init /\ [][Next]_vars

\* ------------------------------------------------- the host's image history
\* (App.tsx in single-image mode with the mask tab open)
MaxFiles == 4   \* image files created in one run

\* an image file: its identity and the size the <img> element renders it at
ImageFiles == [id : 1..(MaxFiles + 1), width : Widths, height : Heights]

\* const currentImage = history[historyIndex] ?? null (historyIndex from 0)
currentImage(a) ==
  IF a.historyIndex >= 0 /\ a.historyIndex < Len(a.history)
  THEN Some(a.history[a.historyIndex + 1]) ELSE Null

\* const canUndo = historyIndex > 0
canUndo(a) == a.historyIndex > 0

\* const canRedo = historyIndex < history.length - 1
canRedo(a) == a.historyIndex < Len(a.history) - 1

\* one image uploaded and loaded, the masking canvas mounted over it
HostInit ==
  /\ MaskMounted
  /\ \E f \in ImageFiles :
       /\ f.id = 1 /\ f.width = width /\ f.height = height
       /\ app = Some([history |-> <<f>>, historyIndex |-> 0, maskResetTrigger |-> 0,
                      imageDimensions |-> [width |-> width, height |-> height],
                      files |-> 1, loaded |-> TRUE])
  /\ FnIdle /\ RetryIdle /\ BudgetIdle /\ BatchIdle

\* addImageToHistory(newImageFile): the history is truncated at the current
\* image and the new one appended; the mask state is reset and the reset
\* trigger incremented, which reruns the initialize effect
addImageToHistory(newImageFile) ==
  LET a == app[1]
      newHistory == Append(SubSeq(a.history, 1, a.historyIndex + 1), newImageFile)
  IN  /\ a.files < MaxFiles
      /\ newImageFile.id = a.files + 1
      /\ app' = Some([a EXCEPT !.history = newHistory,
                               !.historyIndex = Len(newHistory) - 1,
                               !.maskResetTrigger = @ + 1,
                               !.files = @ + 1,
                               !.loaded = FALSE])
      /\ MaskReset
      /\ event' = "addImage"
      /\ UNCHANGED <<fn, retry, budget, batch>>

\* handleUndo: if (canUndo) setHistoryIndex(historyIndex - 1)
handleUndo ==
  LET a == app[1]
  IN  /\ app' = IF canUndo(a)
                THEN Some([a EXCEPT !.historyIndex = @ - 1, !.loaded = FALSE])
                ELSE app
      /\ UNCHANGED <<maskVars, fn, retry, budget, batch>>

\* handleRedo: if (canRedo) setHistoryIndex(historyIndex + 1)
handleRedo ==
  LET a == app[1]
  IN  /\ app' = IF canRedo(a)
                THEN Some([a EXCEPT !.historyIndex = @ + 1, !.loaded = FALSE])
                ELSE app
      /\ UNCHANGED <<maskVars, fn, retry, budget, batch>>

\* handleReset: if (history.length > 0) setHistoryIndex(0)
handleReset ==
  LET a == app[1]
  IN  /\ app' = IF Len(a.history) > 0
                THEN Some([a EXCEPT !.historyIndex = 0,
                                    !.loaded = (a.loaded /\ a.historyIndex = 0)])
                ELSE app
      /\ UNCHANGED <<maskVars, fn, retry, budget, batch>>

\* onImageLoad of the <img key={currentImageUrl}> mounted for the current
\* image: setImageDimensions({clientWidth, clientHeight}); a changed size
\* reaches the masking canvas as new width/height props
onImageLoad ==
  LET a == app[1]
      img == currentImage(a)
  IN  /\ ~a.loaded
      /\ img # Null
      /\ app' = Some([a EXCEPT !.imageDimensions = [width |-> img[1].width, height |-> img[1].height],
                               !.loaded = TRUE])
      /\ IF <<img[1].width, img[1].height>> # <<width, height>>
         THEN Resize(img[1].width, img[1].height) /\ event' = "load"
         ELSE UNCHANGED maskVars
      /\ UNCHANGED <<fn, retry, budget, batch>>

HostNext ==
  \/ \E f \in ImageFiles : addImageToHistory(f)
  \/ handleUndo
  \/ handleRedo
  \/ handleReset
  \/ onImageLoad

HostSpec == HostInit /\ [][HostNext]_vars

\* ------------------------------------- the mapper under degenerate geometry
\* IEEE doubles as far as the mapper can produce them: a finite value (in
\* quarter pixels), NaN, +Infinity or -Infinity
ExtFin(n) == [k |-> "fin", v |-> n]
ExtNaN == [k |-> "nan", v |-> 0]
PosInf == [k |-> "inf", v |-> 1]
NegInf == [k |-> "inf", v |-> -1]
IsFinite(a) == a.k = "fin"

\* (client - rect.left) * (canvas.width / rect.width) with canvas.width > 0:
\* a zero rect.width makes the scale +Infinity, and 0 * Infinity is NaN
MapAxis(offset, size, displayed) ==
  IF displayed # 0 THEN ExtFin((offset * Q * size) \div displayed)
  ELSE IF offset = 0 THEN ExtNaN
  ELSE IF offset > 0 THEN PosInf ELSE NegInf

\* getCoords(e): null only when canvasRef.current is null
getCoordsExt(mounted, clientX, clientY, rect, w, h) ==
  IF ~mounted THEN Null
  ELSE Some([x |-> MapAxis(clientX - rect.left, w, rect.width),
             y |-> MapAxis(clientY - rect.top, h, rect.height)])

\* a - b on doubles
ExtSub(a, b) ==
  IF a.k = "nan" \/ b.k = "nan" THEN ExtNaN
  ELSE IF a.k = "inf" /\ b.k = "inf" THEN (IF a.v = b.v THEN ExtNaN ELSE a)
  ELSE IF a.k = "inf" THEN a
  ELSE IF b.k = "inf" THEN (IF b.v = 1 THEN NegInf ELSE PosInf)
  ELSE ExtFin(a.v - b.v)

\* Math.hypot(dx, dy): +Infinity if either argument is infinite, else NaN if
\* either is NaN; "inf", "nan" or "fin"
HypotKind(dx, dy) ==
  IF dx.k = "inf" \/ dy.k = "inf" THEN "inf"
  ELSE IF dx.k = "nan" \/ dy.k = "nan" THEN "nan"
  ELSE "fin"

\* Math.atan2(dy, dx) is NaN exactly when an argument is NaN
AngleIsNaN(dx, dy) == dx.k = "nan" \/ dy.k = "nan"

FinitePoint(p) == IsFinite(p.x) /\ IsFinite(p.y)
PlainPoint(p) == [x |-> p.x.v, y |-> p.y.v]

\* The body of draw(e) past its guards, from lastPoint last to the mapped
\* point cur: what the call does and the lastPoint it leaves.
\*  - distance NaN: the loop condition i < NaN is false, no dab;
\*  - distance +Infinity: i < Infinity never fails; the first centre is
\*    last + cos(angle) * 0, and createRadialGradient throws a TypeError on
\*    a non-finite argument, otherwise dabs are stamped without end;
\*  - distance finite: the stamping loop.
DrawOutcome(last, cur, brush) ==
  LET dx == ExtSub(cur.x, last.x)
      dy == ExtSub(cur.y, last.y)
      kind == HypotKind(dx, dy)
  IN  IF kind = "nan"
      THEN [outcome |-> "returned", dabs |-> 0, last |-> Some(cur)]
      ELSE IF kind = "inf"
      THEN IF AngleIsNaN(dx, dy) \/ ~FinitePoint(last)
           THEN [outcome |-> "threw", dabs |-> 0, last |-> Some(last)]
           ELSE [outcome |-> "diverges", dabs |-> 1, last |-> Some(last)]
      ELSE [outcome |-> "returned",
            dabs |-> DabCount(0, PlainPoint(last), PlainPoint(cur), brush),
            last |-> Some(cur)]

\* getBoundingClientRect() of a canvas laid out with no displayed size
ZeroRects == {[left |-> 5, top |-> 3, width |-> 0, height |-> 0]}
MapClientXs == ClientXs \cup {5}
MapClientYs == ClientYs \cup {3}
Geometries == {"valid", "zero", "unmounted"}
RectsOf(g, w, h) == IF g = "zero" THEN ZeroRects ELSE Rects(w, h)

\* the pointer samples that meet geometry g: the point getCoords returns
MapSamples(g) ==
  {[geometry |-> g,
    point |-> getCoordsExt(g # "unmounted", cx, cy, rect, canvas.width, canvas.height)] :
      cx \in MapClientXs, cy \in MapClientYs, rect \in RectsOf(g, canvas.width, canvas.height)}

MapBrush == CHOOSE b \in BrushConfigs : b.mode = "brush"

MapInit ==
  /\ MaskMounted
  /\ fn = Some([op |-> "mount", isDrawing |-> FALSE, lastPoint |-> Null,
                sample |-> Null, before |-> Null, wasDrawing |-> FALSE,
                dabs |-> 0, outcome |-> "returned"])
  /\ AppIdle /\ RetryIdle /\ BudgetIdle /\ BatchIdle

Running == fn # Null /\ fn[1].outcome # "diverges"

\* startDrawing(e): isDrawing = true; lastPoint = getCoords(e); draw(e)
MapStartDrawing(s) ==
  LET f == fn[1]
      r == IF s.point = Null
           THEN [outcome |-> "returned", dabs |-> 0, last |-> Null]
           ELSE DrawOutcome(s.point[1], s.point[1], MapBrush)
  IN  /\ Running
      /\ ~f.isDrawing
      /\ fn' = Some([op |-> "startDrawing", isDrawing |-> TRUE, lastPoint |-> r.last,
                     sample |-> Some(s), before |-> f.lastPoint, wasDrawing |-> f.isDrawing,
                     dabs |-> r.dabs, outcome |-> r.outcome])
      /\ UNCHANGED <<maskVars, app, retry, budget, batch>>

\* draw(e)
MapDraw(s) ==
  LET f == fn[1]
      r == IF ~f.isDrawing \/ s.point = Null \/ f.lastPoint = Null
           THEN [outcome |-> "returned", dabs |-> 0, last |-> f.lastPoint]
           ELSE DrawOutcome(f.lastPoint[1], s.point[1], MapBrush)
  IN  /\ Running
      /\ fn' = Some([op |-> "draw", isDrawing |-> f.isDrawing, lastPoint |-> r.last,
                     sample |-> Some(s), before |-> f.lastPoint, wasDrawing |-> f.isDrawing,
                     dabs |-> r.dabs, outcome |-> r.outcome])
      /\ UNCHANGED <<maskVars, app, retry, budget, batch>>

\* endDrawing()
MapEndDrawing ==
  LET f == fn[1]
  IN  /\ Running
      /\ fn' = Some([op |-> "endDrawing", isDrawing |-> FALSE,
                     lastPoint |-> IF f.isDrawing THEN Null ELSE f.lastPoint,
                     sample |-> Null, before |-> f.lastPoint, wasDrawing |-> f.isDrawing,
                     dabs |-> 0, outcome |-> "returned"])
      /\ UNCHANGED <<maskVars, app, retry, budget, batch>>

MapPointerDown == \E g \in Geometries : \E s \in MapSamples(g) : MapStartDrawing(s)

MapPointerMove == \E g \in Geometries : \E s \in MapSamples(g) : MapDraw(s)

MapNext ==
  \/ MapPointerDown
  \/ MapPointerMove
  \/ MapEndDrawing

MapSpec == MapInit /\ [][MapNext]_vars

\* ------------------------------------------------- the stamping increment
BrushSizeRange == 10..200   \* the brush sizes the panel offers

StepInit ==
  /\ MaskMounted
  /\ \E b \in BrushSizeRange : fn = Some([op |-> "brushSize", brushSize |-> b, step |-> Null])
  /\ AppIdle /\ RetryIdle /\ BudgetIdle /\ BatchIdle

\* const step = Math.min(brushSize / 4, 6) evaluated for the brush size given
ComputeStep ==
  /\ fn # Null /\ fn[1].op = "brushSize"
  /\ fn' = Some([fn[1] EXCEPT !.op = "step", !.step = Some(Step(fn[1].brushSize))])
  /\ UNCHANGED <<maskVars, app, retry, budget, batch>>

StepNext == ComputeStep

StepSpec == StepInit /\ [][StepNext]_vars

\* --------------------------------------------------- one dab on one pixel
PixelAlphas == 0..Opaque
\* distances (quarter pixels) of the pixel from the dab centre, brush size 50
DabDistances == {0, 50, 90, 97, 98, 99, 100, 120}
DabHardnesses == {0, 50, 100}
DabSize == CHOOSE b \in BrushSizes : TRUE

\* a pixel of a painted region at alpha a
PaintedPixel(a) == [c |-> IF a = 0 THEN 0 ELSE WhiteLevel, a |-> a]

DabInit ==
  /\ MaskMounted
  /\ \E a \in PixelAlphas, d \in DabDistances, h \in DabHardnesses, m \in BrushModes :
       fn = Some([op |-> "pixel", mode |-> m, before |-> PaintedPixel(a),
                  sa |-> DabAlpha(d, 0, DabSize, h), after |-> Null])
  /\ AppIdle /\ RetryIdle /\ BudgetIdle /\ BatchIdle

\* ctx.fill() of the dab as it acts on the pixel, under the composite
\* operation draw() sets for the brush mode
FillDabPixel ==
  /\ fn # Null /\ fn[1].op = "pixel"
  /\ fn' = Some([fn[1] EXCEPT !.op = "filled",
                              !.after = Some(Composite(CompositeOpOf(fn[1].mode), WhiteLevel,
                                                       fn[1].sa, fn[1].before))])
  /\ UNCHANGED <<maskVars, app, retry, budget, batch>>

DabNext == FillDabPixel

DabSpec == DabInit /\ [][DabNext]_vars

\* ------------------------------------------ the stamping loop, step by step
MaxIter == 12   \* iterations of the stamping loop followed

\* the last point, and signed lengths of the horizontal segments drawn from
\* it (quarter pixels)
SegmentStarts == {[x |-> 60, y |-> 32]}
SegmentLengths == {0, 1, 9, 10, 11, 23, 24, 25, 48, 60, 100, -1, -24, -37, -96}

LoopInit ==
  /\ MaskMounted
  /\ \E b \in BrushSizeRange, p \in SegmentStarts, d \in SegmentLengths :
       fn = Some([pc |-> "loop", brushSize |-> b,
                  from |-> p, to |-> [p EXCEPT !.x = @ + d],
                  i |-> 0, centres |-> <<>>, lastPoint |-> Some(p)])
  /\ AppIdle /\ RetryIdle /\ BudgetIdle /\ BatchIdle

\* one iteration: i < distance holds, a dab is stamped at
\* lastPoint + cos(angle) * i, then i += step
LoopIter ==
  LET f == fn[1]
      dx == f.to.x - f.from.x
      dy == f.to.y - f.from.y
  IN  /\ f.pc = "loop"
      /\ Len(f.centres) < MaxIter
      /\ BeforeDistance(f.i, dx, dy)
      /\ fn' = Some([f EXCEPT !.centres = Append(@, f.from.x + CosAngle(dx, dy) * f.i),
                              !.i = @ + Step(f.brushSize)])
      /\ UNCHANGED <<maskVars, app, retry, budget, batch>>

\* i < distance fails: lastPoint.current = currentPoint and draw returns
LoopExit ==
  LET f == fn[1]
      dx == f.to.x - f.from.x
      dy == f.to.y - f.from.y
  IN  /\ f.pc = "loop"
      /\ ~BeforeDistance(f.i, dx, dy)
      /\ fn' = Some([f EXCEPT !.pc = "done", !.lastPoint = Some(f.to)])
      /\ UNCHANGED <<maskVars, app, retry, budget, batch>>

LoopNext == LoopIter \/ LoopExit

LoopSpec == LoopInit /\ [][LoopNext]_vars

\* the handler runs to completion once the event is dispatched
LoopFairSpec == LoopSpec /\ WF_vars(LoopNext)

\* ------------------------------------------------------- batch retry logic
DefaultRetries == 3     \* retries = 3
DefaultDelay == 1000    \* delay = 1000 (ms)

\* what one call of fn() can settle with
ApiErrors == {"network", "server", "budget"}
ApiResults == {"url1", "url2"}

\* withRetry(apiCall) as the batch loop calls it: both defaults, fn not yet called
RetryInit ==
  /\ MaskMounted
  /\ retry = Some([pc |-> "call", retries |-> DefaultRetries, delay |-> DefaultDelay,
                   calls |-> 0, waits |-> <<>>, errs |-> <<>>,
                   result |-> Null, thrown |-> Null])
  /\ AppIdle /\ FnIdle /\ BudgetIdle /\ BatchIdle

\* retrying once more when no retry is left
MayRetry_Inclusive(retries) == retries >= 0

\* if (retries > 0)
MayRetry(retries) == retries > 0

\* return await fn(), fn() fulfilled with v
FnResolves(v) ==
  LET r == retry[1]
  IN  /\ r.pc = "call"
      /\ retry' = Some([r EXCEPT !.pc = "resolved", !.calls = @ + 1, !.result = Some(v)])
      /\ UNCHANGED <<maskVars, app, fn, budget, batch>>

\* catch (err): fn() rejected with e; setTimeout(res, delay) when a retry is
\* left, throw err otherwise
FnRejects(e) ==
  LET r == retry[1]
  IN  /\ r.pc = "call"
      /\ retry' = IF MayRetry(r.retries)
                  THEN Some([r EXCEPT !.pc = "waiting", !.calls = @ + 1,
                                      !.errs = Append(@, e), !.waits = Append(@, r.delay)])
                  ELSE Some([r EXCEPT !.pc = "rejected", !.calls = @ + 1,
                                      !.errs = Append(@, e), !.thrown = Some(e)])
      /\ UNCHANGED <<maskVars, app, fn, budget, batch>>

\* the timer fires: return withRetry(fn, retries - 1, delay * 2)
TimerFires ==
  LET r == retry[1]
  IN  /\ r.pc = "waiting"
      /\ retry' = Some([r EXCEPT !.pc = "call", !.retries = @ - 1, !.delay = @ * 2])
      /\ UNCHANGED <<maskVars, app, fn, budget, batch>>

RetryNext ==
  \/ \E v \in ApiResults : FnResolves(v)
  \/ \E e \in ApiErrors : FnRejects(e)
  \/ TimerFires

RetrySpec == RetryInit /\ [][RetryNext]_vars

\* ------------------------------------------------------ budget protection
LIMIT_INR == 200        \* BUDGET_CONFIG.LIMIT_INR
EXCHANGE_RATE == 85     \* BUDGET_CONFIG.EXCHANGE_RATE
PerUSD == 1000          \* amounts are in thousandths of a USD (0.003 is 3)

MaxInFlight == 2        \* backend requests awaiting their response
MaxRequests == 4        \* backend requests issued in one run
MaxMonth == 2           \* calendar months the run spans

OperationTypes == {"EDIT", "FILTER", "ADJUSTMENT", "STYLE_TRANSFER", "MASK_COMPOSITION"}

\* COST_TABLE_USD, in thousandths of a USD
COST_TABLE_USD ==
  [EDIT |-> 3, FILTER |-> 3, ADJUSTMENT |-> 3, STYLE_TRANSFER |-> 6, MASK_COMPOSITION |-> 8]

\* totalSpendUSD values the tracker starts the run with, up to the threshold
StartSpends == 2343..2354

\* getBudgetState(): the stored state if it is of the current month, else a
\* fresh one with totalSpendUSD 0
getBudgetState(b) ==
  IF b.stored # Null /\ b.stored[1].month = b.now
  THEN b.stored[1]
  ELSE [month |-> b.now, totalSpendUSD |-> 0]

\* the limit compared with the spend in USD, the exchange rate forgotten
BudgetExceeded_NoExchange(totalSpendUSD) == totalSpendUSD >= LIMIT_INR * PerUSD

\* if (currentSpendINR >= BUDGET_CONFIG.LIMIT_INR), with
\* currentSpendINR = state.totalSpendUSD * BUDGET_CONFIG.EXCHANGE_RATE
BudgetExceeded(totalSpendUSD) == totalSpendUSD * EXCHANGE_RATE >= LIMIT_INR * PerUSD

InFlight(b) == b.inflight["EDIT"] + b.inflight["FILTER"] + b.inflight["ADJUSTMENT"]
                 + b.inflight["STYLE_TRANSFER"] + b.inflight["MASK_COMPOSITION"]

BudgetInit ==
  /\ MaskMounted
  /\ \E s \in StartSpends :
       budget = Some([stored |-> Some([month |-> 1, totalSpendUSD |-> s]), now |-> 1,
                      inflight |-> [op \in OperationTypes |-> 0], requests |-> 0,
                      last |-> [kind |-> "start", op |-> "none", outcome |-> "none"]])
  /\ AppIdle /\ FnIdle /\ RetryIdle /\ BatchIdle

\* generate*(...) up to its await: checkBudgetAvailability(op) throws, or the
\* request goes to the backend
Generate(op) ==
  LET b == budget[1]
  IN  /\ InFlight(b) < MaxInFlight
      /\ b.requests < MaxRequests
      /\ budget' = IF BudgetExceeded(getBudgetState(b).totalSpendUSD)
                   THEN Some([b EXCEPT !.last = [kind |-> "generate", op |-> op, outcome |-> "threw"]])
                   ELSE Some([b EXCEPT !.inflight[op] = @ + 1, !.requests = @ + 1,
                                       !.last = [kind |-> "generate", op |-> op, outcome |-> "requested"]])
      /\ UNCHANGED <<maskVars, app, fn, retry, batch>>

\* callBackend resolves: trackUsage(op) adds the cost to the state of the
\* current month and stores it
BackendResolves(op) ==
  LET b == budget[1]
      state == getBudgetState(b)
  IN  /\ b.inflight[op] > 0
      /\ budget' = Some([b EXCEPT !.inflight[op] = @ - 1,
                                  !.stored = Some([state EXCEPT !.totalSpendUSD = @ + COST_TABLE_USD[op]]),
                                  !.last = [kind |-> "response", op |-> op, outcome |-> "tracked"]])
      /\ UNCHANGED <<maskVars, app, fn, retry, batch>>

\* callBackend throws: generate* rejects, trackUsage is not reached
BackendRejects(op) ==
  LET b == budget[1]
  IN  /\ b.inflight[op] > 0
      /\ budget' = Some([b EXCEPT !.inflight[op] = @ - 1,
                                  !.last = [kind |-> "response", op |-> op, outcome |-> "failed"]])
      /\ UNCHANGED <<maskVars, app, fn, retry, batch>>

\* getCurrentMonthIdentifier() starts returning the next month
MonthRolls ==
  LET b == budget[1]
  IN  /\ b.now < MaxMonth
      /\ budget' = Some([b EXCEPT !.now = @ + 1,
                                  !.last = [kind |-> "month", op |-> "none", outcome |-> "none"]])
      /\ UNCHANGED <<maskVars, app, fn, retry, batch>>

BudgetNext ==
  \/ \E op \in OperationTypes : Generate(op)
  \/ \E op \in OperationTypes : BackendResolves(op)
  \/ \E op \in OperationTypes : BackendRejects(op)
  \/ MonthRolls

BudgetSpec == BudgetInit /\ [][BudgetNext]_vars

\* ------------------------------------------------------- the batch screen
MaxRuns == 3   \* runs of handleStartProcessing followed on one mounted screen

\* files.length of a mounted screen: App mounts it for two files or more
BatchSizes == {2, 3}

Statuses == {"pending", "processing", "complete", "error"}

\* the useState / useRef initial values for n files, no preset or prompt chosen;
\* run is the invocation of handleStartProcessing that has not returned yet:
\* its position (pc), the items of itemsToProcess from the current one on, the
\* retries left to the withRetry in progress, and the backend calls it started
FreshBatch(n) ==
  [batchItems |-> [i \in 1..n |-> "pending"], selectedPreset |-> FALSE,
   isProcessing |-> FALSE, processedCount |-> 0, hasStartedProcessing |-> FALSE,
   isCancelledRef |-> FALSE, run |-> Null, runs |-> 0]

BatchInit ==
  /\ MaskMounted
  /\ \E n \in BatchSizes : batch = Some(FreshBatch(n))
  /\ AppIdle /\ FnIdle /\ RetryIdle /\ BudgetIdle

totalImages(b) == Cardinality(DOMAIN b.batchItems)
totalFailed(b) == Cardinality({i \in DOMAIN b.batchItems : b.batchItems[i] = "error"})
totalPending(b) ==
  Cardinality({i \in DOMAIN b.batchItems : b.batchItems[i] \in {"pending", "processing"}})
isFullyComplete(b) ==
  ~b.isProcessing /\ b.hasStartedProcessing /\ totalPending(b) = 0
canStart(b) == ~b.isProcessing /\ b.selectedPreset

\* the three panels of the render: {!hasStartedProcessing && ...},
\* {isProcessing && ...}, {isFullyComplete && ...}
ControlsPanel(b) == ~b.hasStartedProcessing
ProgressPanel(b) == b.isProcessing
ResultsPanel(b) == isFullyComplete(b)

\* batchItems.filter(item => wanted has item.status), as the item indices in
\* list order
RECURSIVE FilterFrom(_, _, _)
FilterFrom(b, i, wanted) ==
  IF i > totalImages(b) THEN <<>>
  ELSE IF b.batchItems[i] \in wanted THEN <<i>> \o FilterFrom(b, i + 1, wanted)
  ELSE FilterFrom(b, i + 1, wanted)

InSeq(i, s) == \E k \in 1..Len(s) : s[k] = i

\* setIsProcessing(false): the statement after the for loop
LoopEnds(b) == [b EXCEPT !.isProcessing = FALSE, !.run = Null]

\* one pass through the head of the for loop with items rest still to do, up
\* to the await: the cancel test, status 'processing', withRetry(apiCall) with
\* its defaults, whose first statement calls fn() and so issues the request
Iterate(b, rest, calls) ==
  IF rest = <<>> \/ b.isCancelledRef THEN LoopEnds(b)
  ELSE [b EXCEPT !.batchItems[Head(rest)] = "processing",
                 !.run = Some([pc |-> "inflight", itemsToProcess |-> rest,
                               retries |-> DefaultRetries, calls |-> calls + 1])]

\* handleStartProcessing(itemsToProcess) up to the await of the 100 ms timer
handleStartProcessing(b, itemsToProcess) ==
  LET isInitialRun ==
        /\ Len(itemsToProcess) = totalImages(b)
        /\ \A k \in 1..Len(itemsToProcess) : b.batchItems[itemsToProcess[k]] # "complete"
  IN  IF ~b.selectedPreset \/ itemsToProcess = <<>> THEN b
      ELSE [b EXCEPT !.hasStartedProcessing = TRUE,
                     !.isCancelledRef = FALSE,
                     !.isProcessing = TRUE,
                     !.processedCount = IF isInitialRun THEN 0 ELSE @,
                     !.batchItems = [i \in DOMAIN @ |->
                                       IF InSeq(i, itemsToProcess) THEN "pending" ELSE @[i]],
                     !.run = Some([pc |-> "delay", itemsToProcess |-> itemsToProcess,
                                   retries |-> 0, calls |-> 0]),
                     !.runs = @ + 1]

\* a preset button of the controls panel
handlePresetClick ==
  LET b == batch[1]
  IN  /\ ControlsPanel(b) /\ ~b.selectedPreset
      /\ batch' = Some([b EXCEPT !.selectedPreset = TRUE])
      /\ UNCHANGED <<maskVars, app, fn, retry, budget>>

\* the Start Batch Process button: onClick={() => handleStartProcessing(batchItems)},
\* disabled={!canStart}
StartBatchProcess ==
  LET b == batch[1]
  IN  /\ ControlsPanel(b) /\ canStart(b) /\ b.runs < MaxRuns
      /\ batch' = Some(handleStartProcessing(b, FilterFrom(b, 1, Statuses)))
      /\ UNCHANGED <<maskVars, app, fn, retry, budget>>

\* the Retry Failed button of the results panel, rendered when totalFailed > 0
handleRetryFailed ==
  LET b == batch[1]
  IN  /\ ResultsPanel(b) /\ totalFailed(b) > 0 /\ b.runs < MaxRuns
      /\ batch' = Some(handleStartProcessing(b, FilterFrom(b, 1, {"error"})))
      /\ UNCHANGED <<maskVars, app, fn, retry, budget>>

\* the 100 ms timer fires and the for loop is entered
DelayElapses ==
  LET b == batch[1]
  IN  /\ b.run # Null /\ b.run[1].pc = "delay"
      /\ batch' = Some(Iterate(b, b.run[1].itemsToProcess, b.run[1].calls))
      /\ UNCHANGED <<maskVars, app, fn, retry, budget>>

\* the request is answered with an image: withRetry returns it; the loop
\* breaks if cancelled, else marks the item complete, counts it and goes on
ApiResolves ==
  LET b == batch[1]
      r == b.run[1]
  IN  /\ b.run # Null /\ r.pc = "inflight"
      /\ batch' = Some(IF b.isCancelledRef THEN LoopEnds(b)
                       ELSE Iterate([b EXCEPT !.batchItems[Head(r.itemsToProcess)] = "complete",
                                              !.processedCount = @ + 1],
                                    Tail(r.itemsToProcess), r.calls))
      /\ UNCHANGED <<maskVars, app, fn, retry, budget>>

\* the request fails: withRetry sets its timer when a retry is left and throws
\* otherwise; on the throw the loop breaks if cancelled, else marks the item
\* failed, counts it and goes on
ApiRejects ==
  LET b == batch[1]
      r == b.run[1]
  IN  /\ b.run # Null /\ r.pc = "inflight"
      /\ batch' = Some(IF MayRetry(r.retries)
                       THEN [b EXCEPT !.run = Some([r EXCEPT !.pc = "waiting"])]
                       ELSE IF b.isCancelledRef THEN LoopEnds(b)
                       ELSE Iterate([b EXCEPT !.batchItems[Head(r.itemsToProcess)] = "error",
                                              !.processedCount = @ + 1],
                                    Tail(r.itemsToProcess), r.calls))
      /\ UNCHANGED <<maskVars, app, fn, retry, budget>>

\* the timer of withRetry fires: return withRetry(fn, retries - 1, delay * 2),
\* whose first statement calls fn() again
RetryTimerFires ==
  LET b == batch[1]
      r == b.run[1]
  IN  /\ b.run # Null /\ r.pc = "waiting"
      /\ batch' = Some([b EXCEPT !.run = Some([r EXCEPT !.pc = "inflight",
                                                        !.retries = @ - 1,
                                                        !.calls = @ + 1])])
      /\ UNCHANGED <<maskVars, app, fn, retry, budget>>

\* the Cancel button of the progress panel
handleCancelProcessing ==
  LET b == batch[1]
  IN  /\ ProgressPanel(b)
      /\ batch' = Some([b EXCEPT !.isCancelledRef = TRUE,
                                 !.batchItems = [i \in DOMAIN @ |->
                                    IF @[i] = "processing" THEN "pending" ELSE @[i]]])
      /\ UNCHANGED <<maskVars, app, fn, retry, budget>>

\* the Start Over button of the results panel (onExit), then a new selection of
\* files mounts the screen again
StartOver ==
  LET b == batch[1]
  IN  /\ ResultsPanel(b)
      /\ \E n \in BatchSizes : batch' = Some(FreshBatch(n))
      /\ UNCHANGED <<maskVars, app, fn, retry, budget>>

BatchNext ==
  \/ handlePresetClick
  \/ StartBatchProcess
  \/ handleRetryFailed
  \/ DelayElapses
  \/ ApiResolves
  \/ ApiRejects
  \/ RetryTimerFires
  \/ handleCancelProcessing
  \/ StartOver

BatchSpec == BatchInit /\ [][BatchNext]_vars

\* ------------------------------------------------------------- properties
Top(stack) == stack[Len(stack)]
Committed == lastOp = "endDrawing" /\ pre.isDrawing
UndoApplied == lastOp = "undo" /\ Len(pre.historyStack) > 1
RedoApplied == lastOp = "redo" /\ Len(pre.redoStack) > 0
Count(seq, v) == Cardinality({i \in 1..Len(seq) : seq[i] = v})
Reverse(seq) == [i \in 1..Len(seq) |-> seq[Len(seq) + 1 - i]]
\* every snapshot held, oldest first: the undo stack, then the undone ones
Snapshots == historyStackRef \o Reverse(redoStackRef)

\* C1: every stroke commit empties the redo stack and reports canRedo false,
\* and a Redo() that directly follows a commit changes neither the raster nor
\* either stack and leaves canRedo false.
C1_CommitClearsRedo ==
  [][ /\ (lastOp' = "endDrawing" /\ isDrawing)
           => (redoStackRef' = <<>> /\ canRedoMaskStroke' = FALSE)
      /\ (Committed /\ lastOp' = "redo")
           => (UNCHANGED <<canvas, historyStackRef, redoStackRef>> /\ canRedoMaskStroke' = FALSE)
    ]_vars

\* a stroke was committed while the redo stack held undone snapshots
C1_Witness == Committed /\ Len(pre.redoStack) > 0 /\ redoStackRef = <<>>

\* C9: Undo() with at most one snapshot and Redo() with an empty redo stack
\* change nothing of the engine state and fire no callback.
C9_NoOpUndoRedo ==
  ((lastOp = "undo" /\ Len(pre.historyStack) <= 1) \/ (lastOp = "redo" /\ pre.redoStack = <<>>))
    => (Engine = pre /\ emitted = <<>>)

\* Undo() was called on a stack holding only the blank snapshot
C9_Witness == lastOp = "undo" /\ Len(pre.historyStack) = 1 /\ Len(historyStackRef) = 1

\* C10: each commit, effective Undo and effective Redo fires onMaskChange
\* exactly once, with the encoding of the raster as it then is: the snapshot
\* just pushed (commit) or just restored (Undo/Redo).
C10_MaskChangeOncePerEdit ==
  (Committed \/ UndoApplied \/ RedoApplied)
    => /\ Count(emitted, "onMaskChange") = 1
       /\ drawnMaskDataUrl = Some(toDataURL(canvas))
       /\ drawnMaskDataUrl = Some(toDataURL(Top(historyStackRef)))

\* an Undo put back a snapshot that differs from the raster before it
C10_Witness == UndoApplied /\ canvas # pre.canvas /\ drawnMaskDataUrl = Some(toDataURL(canvas))

\* C2: N strokes committed after Initialize and then N Undos (nothing else in
\* between) leave the raster all black, and through such a run canUndo is
\* false exactly when the undo stack holds one entry.
C2_UndoAllReturnsBlank ==
  (sinceInit.clean /\ ~isDrawing)
    => /\ (sinceInit.k = sinceInit.n) => canvas = BlackBitmap(width, height)
       /\ canUndoMaskStroke = (Len(historyStackRef) # 1)

\* C3: k effective Undos followed by k Redos, begun with no stroke in progress
\* and with no stroke in between, restore the raster and both stacks.
C3_UndoRedoRoundTrip ==
  (undoRedo.active /\ undoRedo.j = undoRedo.k)
    => undoRedo.base = Some(<<canvas, historyStackRef, redoStackRef>>)

\* two Undos and two Redos went over two different snapshots
C3_Witness ==
  /\ undoRedo.active /\ undoRedo.k = 2 /\ undoRedo.j = 2
  /\ Len(historyStackRef) = 3
  /\ historyStackRef[2] # historyStackRef[3]
  /\ lastOp = "redo" /\ canvas # pre.canvas

\* C4 as stated: in every reachable state the raster equals the top of the
\* undo stack.
C4_RasterIsTopAlways == canvas = Top(historyStackRef)

\* C4 amended: the raster equals the top of the undo stack whenever no stroke
\* is in progress, and right after every effective Undo or Redo.
C4_RasterIsTopWhenIdle ==
  (~isDrawing \/ UndoApplied \/ RedoApplied) => canvas = Top(historyStackRef)

\* an Undo changed the raster, to the new top of a stack of two or more
C4_Witness ==
  UndoApplied /\ ~isDrawing /\ canvas # pre.canvas /\ Len(historyStackRef) > 1
    /\ canvas = Top(historyStackRef)

\* C5: a pointer-down directly followed by pointer-up stamps exactly one dab
\* at the point and pushes exactly one snapshot.
C5_TapStampsOneDab ==
  (Committed /\ tap.on)
    => /\ tap.dabs = 1
       /\ Some(canvas) = tap.oneDab
       /\ Len(historyStackRef) = Len(pre.historyStack) + 1

\* C6: an undo() or redo() received while a stroke is in progress leaves the
\* raster and both stacks unchanged.
C6_NoRestoreMidStroke ==
  (lastOp \in {"undo", "redo"} /\ pre.isDrawing)
    => (canvas = pre.canvas /\ historyStackRef = pre.historyStack /\ redoStackRef = pre.redoStack)

\* C7: the undo stack is never empty and its first entry is the all-black
\* raster of the current dimensions.
C7_BottomIsBlank ==
  Len(historyStackRef) >= 1 /\ historyStackRef[1] = BlackBitmap(width, height)

\* C8: Initialize and every Reset leave the raster all black, the undo stack
\* holding just that raster, the redo stack empty and both availabilities false.
C8_ResetLeavesBlank ==
  (lastOp \in {"mount", "reset", "resize"})
    => /\ canvas = BlackBitmap(width, height)
       /\ historyStackRef = <<BlackBitmap(width, height)>>
       /\ redoStackRef = <<>>
       /\ canUndoMaskStroke = FALSE /\ canRedoMaskStroke = FALSE

\* C11: the canUndo and canRedo values last reported to the host equal
\* (undo stack size > 1) and (redo stack size > 0).
C11_AvailabilityReported ==
  /\ canUndoMaskStroke = (Len(historyStackRef) > 1)
  /\ canRedoMaskStroke = (Len(redoStackRef) > 0)

\* an Undo made canRedo true and canUndo false
C11_Witness ==
  UndoApplied /\ canRedoMaskStroke /\ ~canUndoMaskStroke /\ Len(pre.redoStack) = 0

\* C12: a leave event during a stroke ends and commits it exactly as
\* pointer-up does, and every step that ends a stroke exports the mask and
\* pushes the raster as a new snapshot.
StrokeCommitted ==
  /\ isDrawing' = FALSE
  /\ historyStackRef' = Append(historyStackRef, canvas)
  /\ drawnMaskDataUrl' = Some(toDataURL(canvas))
  /\ canvas' = canvas

C13_SnapshotsImmutable ==
  [][ /\ (lastOp' \in {"startDrawing", "draw"}) => UNCHANGED <<historyStackRef, redoStackRef>>
      /\ (lastOp' \in {"undo", "redo"}) => Snapshots' = Snapshots
      /\ (lastOp' = "endDrawing")
           => SubSeq(historyStackRef', 1, Len(historyStackRef)) = historyStackRef
    ]_vars

\* stamping changed the raster while the snapshot pushed by an earlier commit
\* still holds what the raster held before
C13_Witness ==
  /\ lastOp = "draw" /\ pre.isDrawing
  /\ Len(historyStackRef) > 1
  /\ pre.canvas = Top(historyStackRef)
  /\ canvas # Top(historyStackRef)

\* C14: every snapshot of both stacks has the dimensions of the raster, which
\* are the width and height given to the canvas, and a step that changes the
\* width or the height leaves a blank raster, an undo stack holding just it
\* and an empty redo stack.
SameDimensions(img) == img.width = canvas.width /\ img.height = canvas.height

DimensionsAgree ==
  /\ canvas.width = width /\ canvas.height = height
  /\ \A i \in 1..Len(historyStackRef) : SameDimensions(historyStackRef[i])
  /\ \A i \in 1..Len(redoStackRef) : SameDimensions(redoStackRef[i])

C14_DimensionsFixed ==
  [][ /\ DimensionsAgree /\ DimensionsAgree'
      /\ (width' # width \/ height' # height)
           => /\ canvas' = BlackBitmap(width', height')
              /\ historyStackRef' = <<canvas'>>
              /\ redoStackRef' = <<>>
    ]_vars

\* the dimensions changed while both stacks held snapshots of the old size
C14_Witness ==
  /\ lastOp = "resize"
  /\ Len(pre.historyStack) > 1 /\ Len(pre.redoStack) > 0
  /\ pre.canvas.width # canvas.width
  /\ historyStackRef = <<canvas>>

\* C15: every host step that changes the displayed current image or the
\* canvas dimensions also increments the reset trigger.
C15_ImageChangeIncrementsTrigger ==
  [][ (app # Null /\ app' # Null
        /\ (currentImage(app'[1]) # currentImage(app[1])
              \/ app'[1].imageDimensions # app[1].imageDimensions))
        => app'[1].maskResetTrigger = app[1].maskResetTrigger + 1
    ]_vars

\* C16: a pointer sample that meets an unmounted canvas or one of zero
\* displayed size is skipped (lastPoint is left as it was, no dab, no
\* exception), and the next sample with valid geometry is drawn normally from
\* the last point recorded.
C16_DegenerateSampleSkipped ==
  (fn # Null /\ fn[1].sample # Null)
    => LET f == fn[1]
           s == f.sample[1]
       IN  /\ (s.geometry # "valid")
                => (f.lastPoint = f.before /\ f.dabs = 0 /\ f.outcome = "returned")
           /\ (s.geometry = "valid" /\ f.op = "draw" /\ f.wasDrawing /\ f.before # Null)
                => /\ f.outcome = "returned"
                   /\ f.lastPoint = s.point
                   /\ IsFinite(f.before[1].x) /\ IsFinite(f.before[1].y)
                   /\ f.dabs = DabCount(0, PlainPoint(f.before[1]), PlainPoint(s.point[1]), MapBrush)

StepComputed == fn # Null /\ fn[1].op = "step"

\* C17 as stated: for every brush size in [10, 200] the step is at most 6 px
\* and at least brushSize / 4 (lengths in quarter pixels).
C17_StepBetween ==
  StepComputed => /\ fn[1].step[1] <= Q * MaxStep
                  /\ fn[1].step[1] >= fn[1].brushSize

\* C17 amended: for every brush size in [10, 200] the step is at most 6 px and
\* at most brushSize / 4, it is one of the two, and it is brushSize / 4
\* exactly for the brush sizes up to 24.
C17_StepIsSmaller ==
  StepComputed => /\ fn[1].step[1] <= Q * MaxStep
                  /\ fn[1].step[1] <= fn[1].brushSize
                  /\ fn[1].step[1] \in {fn[1].brushSize, Q * MaxStep}
                  /\ (fn[1].step[1] = fn[1].brushSize) <=> (fn[1].brushSize <= Q * MaxStep)

\* the step of a brush of 200 px is 6 px, less than a quarter of the size
C17_Witness ==
  StepComputed /\ fn[1].brushSize = 200 /\ fn[1].step[1] = Q * MaxStep
    /\ fn[1].step[1] < fn[1].brushSize

Erased == fn # Null /\ fn[1].op = "filled" /\ fn[1].mode = "erase"

C19_RetryBackoff ==
  retry # Null
    => LET r == retry[1]
       IN  /\ r.calls <= 4
           /\ Len(r.waits) <= 3
           /\ r.waits = SubSeq(<<1000, 2000, 4000>>, 1, Len(r.waits))
           /\ (r.pc \in {"call", "waiting"}) => (Len(r.errs) = r.calls /\ r.result = Null /\ r.thrown = Null)
           /\ (r.pc = "call") => Len(r.waits) = r.calls
           /\ (r.pc = "waiting") => Len(r.waits) = r.calls
           /\ (r.pc = "resolved")
                => (r.result # Null /\ r.thrown = Null /\ r.calls = Len(r.errs) + 1
                     /\ Len(r.waits) = Len(r.errs))
           /\ (r.pc = "rejected")
                => (r.calls = 4 /\ Len(r.errs) = 4 /\ r.result = Null
                     /\ r.thrown = Some(r.errs[4]) /\ r.waits = <<1000, 2000, 4000>>)

\* four calls failed, with different errors, and the last one was thrown
C19_Witness ==
  /\ retry # Null /\ retry[1].pc = "rejected"
  /\ retry[1].errs = <<"network", "network", "server", "budget">>
  /\ retry[1].thrown = Some("budget")

\* the third call succeeded after waits of 1000 and 2000 ms
C19_WitnessSuccess ==
  /\ retry # Null /\ retry[1].pc = "resolved"
  /\ retry[1].calls = 3 /\ retry[1].waits = <<1000, 2000>>

\* the stored spend of the current month, converted at 85 INR/USD, is at
\* least 200 INR
AtThreshold(b) == getBudgetState(b).totalSpendUSD * 85 >= 200 * PerUSD

\* a generate* call threw before any backend request, recording no usage
ThrewUntracked ==
  /\ budget'[1].last.outcome = "threw"
  /\ budget'[1].requests = budget[1].requests
  /\ budget'[1].inflight = budget[1].inflight
  /\ budget'[1].stored = budget[1].stored

\* C20 as stated: while the stored spend of the month is at the threshold,
\* each generate* call throws before any backend request and without
\* recording usage, and the stored spend does not increase in that month.
C20_SpendFrozenAtThreshold ==
  [][ (budget # Null /\ budget' # Null /\ AtThreshold(budget[1]))
        => /\ (budget'[1].last.kind = "generate") => ThrewUntracked
           /\ (budget'[1].now = budget[1].now)
                => getBudgetState(budget'[1]).totalSpendUSD <= getBudgetState(budget[1]).totalSpendUSD
    ]_vars

\* C20 amended: while the stored spend of the month is at the threshold, each
\* generate* call throws before any backend request and without recording
\* usage, and the stored spend increases in that month only by the cost of a
\* request that was issued earlier and now completes.
C20_BlockedAtThreshold ==
  [][ (budget # Null /\ budget' # Null /\ AtThreshold(budget[1]))
        => /\ (budget'[1].last.kind = "generate") => ThrewUntracked
           /\ (budget'[1].now = budget[1].now
                 /\ getBudgetState(budget'[1]).totalSpendUSD > getBudgetState(budget[1]).totalSpendUSD)
                => \E op \in OperationTypes :
                     /\ budget[1].inflight[op] > 0
                     /\ budget'[1].inflight = [budget[1].inflight EXCEPT ![op] = @ - 1]
                     /\ budget'[1].requests = budget[1].requests
                     /\ getBudgetState(budget'[1]).totalSpendUSD
                          = getBudgetState(budget[1]).totalSpendUSD + COST_TABLE_USD[op]
    ]_vars

\* a call was refused at the threshold, which the tracked completion of an
\* earlier request had reached
C20_Witness ==
  /\ budget # Null
  /\ budget[1].last = [kind |-> "generate", op |-> "MASK_COMPOSITION", outcome |-> "threw"]
  /\ AtThreshold(budget[1])
  /\ budget[1].requests > 0
  /\ budget[1].now = 1

Front(stack) == SubSeq(stack, 1, Len(stack) - 1)

\* C21: an effective Undo pops the top snapshot of the undo stack and pushes
\* that snapshot onto the redo stack, an effective Redo pops the top of the
\* redo stack and pushes it onto the undo stack; so the undo stack followed
\* by the reversed redo stack, and the total count, are as before.
C21_UndoRedoMoveSnapshots ==
  /\ UndoApplied
       => /\ historyStackRef = Front(pre.historyStack)
          /\ redoStackRef = Append(pre.redoStack, Top(pre.historyStack))
  /\ RedoApplied
       => /\ redoStackRef = Front(pre.redoStack)
          /\ historyStackRef = Append(pre.historyStack, Top(pre.redoStack))
  /\ (lastOp \in {"undo", "redo"})
       => /\ Snapshots = pre.historyStack \o Reverse(pre.redoStack)
          /\ Len(historyStackRef) + Len(redoStackRef) = Len(pre.historyStack) + Len(pre.redoStack)

\* a second Undo put a snapshot on top of a different one in the redo stack
C21_Witness ==
  /\ UndoApplied
  /\ Len(redoStackRef) = 2 /\ redoStackRef[1] # redoStackRef[2]
  /\ redoStackRef[2] = Top(pre.historyStack)

\* min(brushSize / 4, 6) px in quarter pixels, and ceil(d / step)
StepOfSize(b) == IF b < 4 * 6 THEN b ELSE 4 * 6
CeilDiv(n, d) == (n + d - 1) \div d
LoopDone == fn # Null /\ fn[1].pc = "done"
SegmentLength(f) == Abs(f.to.x - f.from.x)

\* C22: for a sample at distance d > 0 from the last point the loop stamps
\* ceil(d / step) dabs, the i-th centred i * step from the last point on the
\* segment towards the new point and nearer than d, and the new point is the
\* last point afterwards.
C22_DabsAlongSegment ==
  (LoopDone /\ SegmentLength(fn[1]) > 0)
    => LET f == fn[1]
           d == SegmentLength(f)
           dir == IF f.to.x < f.from.x THEN -1 ELSE 1
       IN  /\ Len(f.centres) = CeilDiv(d, StepOfSize(f.brushSize))
           /\ \A k \in 1..Len(f.centres) :
                /\ f.centres[k] = f.from.x + dir * (k - 1) * StepOfSize(f.brushSize)
                /\ Abs(f.centres[k] - f.from.x) < d
                /\ Abs(f.to.x - f.centres[k]) <= d
           /\ f.lastPoint = Some(f.to)

\* a brush of 10 px drew a segment of 24 px to the left: ten dabs
C22_Witness ==
  /\ LoopDone
  /\ fn[1].brushSize = 10 /\ fn[1].to.x = fn[1].from.x - 96
  /\ Len(fn[1].centres) = 10
  /\ fn[1].centres[10] = fn[1].from.x - 90

\* C30: for every brush size in [10, 200] and every segment length d >= 0 the
\* stamping loop ends, after ceil(d / step) iterations, and the handler
\* returns with the new point as the last point.
C30_LoopTerminates ==
  <>(/\ LoopDone
     /\ StepOfSize(fn[1].brushSize) > 0
     /\ Len(fn[1].centres) = CeilDiv(SegmentLength(fn[1]), StepOfSize(fn[1].brushSize))
     /\ fn[1].lastPoint = Some(fn[1].to))

\* the loop of a brush of 200 px ended after five iterations over 25 px
C30_Witness ==
  /\ LoopDone
  /\ fn[1].brushSize = 200 /\ SegmentLength(fn[1]) = 100
  /\ Len(fn[1].centres) = 5 /\ fn[1].i = 120
  /\ fn[1].lastPoint = Some(fn[1].to)

\* C23: the raster changes only in a stamping step of an active stroke, in
\* an Undo or Redo, or in Initialize/Reset; and a pointer-move, pointer-up or
\* leave event received while no stroke is active changes nothing of the
\* engine or of the host's mask state and fires no callback.
C23_IdleEventsChangeNothing ==
  [][ /\ (canvas' # canvas)
           => \/ (lastOp' \in {"startDrawing", "draw"} /\ isDrawing')
              \/ lastOp' \in {"undo", "redo", "mount", "reset", "resize"}
      /\ (~isDrawing /\ lastOp' \in {"draw", "endDrawing"})
           => (UNCHANGED <<engineVars, hostVars>> /\ emitted' = <<>>)
    ]_vars

\* a pointer-move arrived after a stroke had been committed
C23_Witness ==
  /\ lastOp = "draw" /\ ~pre.isDrawing /\ event = "mousemove"
  /\ Len(historyStackRef) > 1 /\ canvas # BlackBitmap(width, height)
  /\ Engine = pre

\* C24: a terminating event (pointer-up, leave, touch-end) that meets an
\* active stroke pushes exactly one snapshot, fires onMaskChange once and
\* onDrawEnd once and ends the stroke; one that meets no active stroke pushes
\* nothing and fires nothing; a stroke becomes active only by a pointer-down.
C24_CommitOncePerStroke ==
  [][ /\ (lastOp' = "endDrawing" /\ isDrawing)
           => /\ historyStackRef' = Append(historyStackRef, canvas)
              /\ Count(emitted', "onMaskChange") = 1
              /\ Count(emitted', "onDrawEnd") = 1
              /\ ~isDrawing'
      /\ (lastOp' = "endDrawing" /\ ~isDrawing)
           => /\ historyStackRef' = historyStackRef
              /\ Count(emitted', "onMaskChange") = 0
              /\ Count(emitted', "onDrawEnd") = 0
              /\ ~isDrawing'
      /\ (~isDrawing /\ isDrawing') => lastOp' = "startDrawing"
    ]_vars

\* a leave event followed the terminating event that committed the stroke
C24_Witness ==
  /\ lastOp = "endDrawing" /\ ~pre.isDrawing /\ event = "mouseleave"
  /\ pre.lastPoint = Null
  /\ Len(historyStackRef) = 2 /\ historyStackRef = pre.historyStack
  /\ drawnMaskDataUrl = Some(toDataURL(Top(historyStackRef)))

\* C25: a Reset between pointer-down and pointer-up ends the stroke: right
\* after a Reset no stroke is active, a following pointer-move leaves the
\* raster as it is, and a following pointer-up or leave pushes no snapshot
\* and leaves canUndo false.
C25_ResetEndsStroke ==
  [][ (lastOp \in {"reset", "resize"})
        => /\ ~isDrawing
           /\ (lastOp' = "draw") => canvas' = canvas
           /\ (lastOp' = "endDrawing")
                => (historyStackRef' = historyStackRef /\ Len(historyStackRef') = 1
                     /\ ~canUndoMaskStroke')
    ]_vars

\* C26: whenever no stroke is active, the host's drawnMaskDataUrl is null or
\* the encoding of the engine's raster, which is the top of the undo stack;
\* also after a mask reset, a remount of the canvas and a change of
\* dimensions.
C26_HostMaskMatchesRaster ==
  ~isDrawing
    => \/ drawnMaskDataUrl = Null
       \/ /\ drawnMaskDataUrl = Some(toDataURL(canvas))
          /\ canvas = Top(historyStackRef)

\* ------------------------------------------------- batch screen properties
\* a step in which the run in progress issues one more backend request
BackendCallStarted ==
  /\ batch[1].run # Null /\ batch'[1].run # Null
  /\ batch'[1].run[1].calls > batch[1].run[1].calls

\* a step in which some item's status becomes 'complete' or 'error'
StatusSettled ==
  \E i \in DOMAIN batch[1].batchItems :
    /\ i \in DOMAIN batch'[1].batchItems
    /\ batch'[1].batchItems[i] \in {"complete", "error"}
    /\ batch'[1].batchItems[i] # batch[1].batchItems[i]

\* C27: once the run in progress was cancelled, no step issues a backend
\* request (for the next item, or as another retry of the item in flight) and
\* no step sets an item's status to 'complete' or 'error'.
C27_NoCallAfterCancel ==
  [][(batch # Null /\ batch' # Null /\ batch[1].isCancelledRef /\ batch[1].run # Null)
       => (~BackendCallStarted /\ ~StatusSettled)]_vars

\* C28: in every reachable state of the batch screen one of the three panels
\* is rendered: controls, progress or results.
C28_SomePanelAvailable ==
  batch # Null =>
    (ControlsPanel(batch[1]) \/ ProgressPanel(batch[1]) \/ ResultsPanel(batch[1]))

\* C29: the progress counter never exceeds the number of items of the batch,
\* through the initial run and any Retry Failed runs.
C29_CountWithinBatch ==
  batch # Null => batch[1].processedCount <= totalImages(batch[1])

====
